---- MODULE Spec2Model ----
(***************************************************************************)
(* Outbox-driven synchronisation of meal plans and shopping lists from the *)
(* relational store into the graph store: the worker loop of               *)
(* src/workers/runner.py and the two pipelines of src/pipelines.           *)
(*                                                                         *)
(* The graph is a set of nodes keyed by <<label, id>>, each with one       *)
(* property value that stands for the scalar properties the pipelines SET  *)
(* together, and a set of typed edges <<type, from, to>>.                  *)
(***************************************************************************)
EXTENDS Integers, Sequences, FiniteSets, TLC

\* ------------------------------------------------------------------ bounds
MaxOps == 2         \* handle_event calls in one run of SpecMerge
MaxSyncs == 1       \* handle_event calls in one run of SpecSync
MaxEvents == 2      \* outbox events the write side inserts
MaxAttempts == 2    \* settings.max_attempts
BatchSize == 2      \* settings.batch_size

NULL == 0           \* SQL NULL / Python None / an absent graph property

MealPlanIds == {1, 2}
ShoppingListIds == {1}
MealItemIds == {1, 2}      \* meal_plan_items.id
ShoppingItemIds == {1}     \* shopping_list_items.id
LeafIds == {1}      \* household, vendor, recipe, product, ingredient ids
Names == {1}        \* non-null scalar values
OptLeaf == LeafIds \cup {NULL}
OptName == Names \cup {NULL}

AGG_TYPES == {"meal_plan", "shopping_list"}

AggregateIds(t) == IF t = "meal_plan" THEN MealPlanIds ELSE ShoppingListIds

\* ------------------------------------------------------------ graph store
Key(label, id) == <<label, id>>

EmptyGraph == [nodes |-> <<>>, edges |-> {}]

HasNode(g, k) == k \in DOMAIN g.nodes

Prop(g, k) == IF HasNode(g, k) THEN g.nodes[k] ELSE NULL

\* MERGE (n:Label {id: ...}): match the node or create it with no properties.
MergeNode(g, k) ==
  IF HasNode(g, k) THEN g ELSE [g EXCEPT !.nodes = (k :> NULL) @@ @]

\* SET n.prop = v, for the properties a statement sets together.
SetProp(g, k, v) == [g EXCEPT !.nodes[k] = v]

\* MERGE (a)-[:TYPE]->(b)
MergeEdge(g, type, a, b) == [g EXCEPT !.edges = @ \cup {<<type, a, b>>}]

\* DETACH DELETE of every node in ks: the nodes and every edge touching them.
DetachDelete(g, ks) ==
  [nodes |-> [k \in (DOMAIN g.nodes) \ ks |-> g.nodes[k]],
   edges |-> {e \in g.edges : e[2] \notin ks /\ e[3] \notin ks}]

\* (root)-[:HAS_ITEM]->(item:ItemLabel)
ItemsOf(g, root, itemLabel) ==
  {e[3] : e \in {x \in g.edges : x[1] = "HAS_ITEM" /\ x[2] = root
                                  /\ x[3][1] = itemLabel}}

\* ------------------------------------------------- relational snapshots
NoRow == [absent |-> TRUE]

\* load_meal_plan: meal_plans LEFT JOIN households, or no row.
MealPlanRows(id) ==
  {[id |-> id, household_id |-> h, household |-> hv, val |-> v] :
      h \in OptLeaf, hv \in OptName, v \in Names}

\* The LEFT JOIN yields the household's columns, NULL when there is none.
JoinedRow(r) == (r.household_id = NULL) <=> (r.household = NULL)

\* load_items: meal_plan_items JOIN recipes (rows without a recipe drop out).
MealItemRows ==
  {[id |-> i, val |-> v, recipe_id |-> r, recipe_name |-> rn] :
      i \in MealItemIds, v \in Names, r \in LeafIds, rn \in OptName}

\* load_shopping_list: shopping_lists LEFT JOIN households LEFT JOIN vendors.
ShoppingListRows(id) ==
  {[id |-> id, household_id |-> h, household |-> hv, val |-> v,
    vendor_id |-> vd, vendor_name |-> vn] :
      h \in OptLeaf, hv \in OptName, v \in Names, vd \in OptLeaf, vn \in OptName}

JoinedListRow(r) ==
  JoinedRow(r) /\ ((r.vendor_id = NULL) <=> (r.vendor_name = NULL))

\* load_items: shopping_list_items LEFT JOIN products LEFT JOIN ingredients.
ShoppingItemRows ==
  {[id |-> i, val |-> v, product_id |-> p, product_name |-> pn,
    ingredient_id |-> g, ingredient_name |-> gn, substituted_product_id |-> sp] :
      i \in ShoppingItemIds, v \in Names, p \in OptLeaf, pn \in OptName,
      g \in OptLeaf, gn \in OptName, sp \in OptLeaf}

JoinedItemRow(r) ==
  /\ r.product_id # NULL \/ r.product_name = NULL
  /\ r.ingredient_id # NULL \/ r.ingredient_name = NULL

\* The item lists a read can return: ids are primary keys, so no row's id
\* repeats; any order.
RECURSIVE ItemLists(_)
ItemLists(rows) ==
  {<<>>} \cup
  UNION {{<<r>> \o s : s \in ItemLists({x \in rows : x.id # r.id})} : r \in rows}

MealItemLists == ItemLists(MealItemRows)

ShoppingItemLists == ItemLists({r \in ShoppingItemRows : JoinedItemRow(r)})

\* A SET that takes the snapshot's name as it is, null or not.
Coalesce_overwrites(a, b) == a

\* coalesce(a, b)
Coalesce(a, b) == IF a # NULL THEN a ELSE b

\* ------------------------------------------------------ MealPlanPipeline
\* The UNWIND over $items of _upsert_cypher, one row at a time.
RECURSIVE MealPlan_unwind_items(_, _, _)
MealPlan_unwind_items(g, mp, items) ==
  IF items = <<>> THEN g
  ELSE LET it  == Head(items)
           mpi == Key("MealPlanItem", it.id)
           r   == Key("Recipe", it.recipe_id)
           g1  == SetProp(MergeNode(g, mpi), mpi, it.val)
           g2  == MergeEdge(g1, "HAS_ITEM", mp, mpi)
           g3  == MergeNode(g2, r)
           g4  == SetProp(g3, r, Coalesce(it.recipe_name, Prop(g3, r)))
           g5  == MergeEdge(g4, "USES_RECIPE", mpi, r)
       IN  MealPlan_unwind_items(g5, mp, Tail(items))

\* A merge without the "Clear old items" step.
MealPlan_keeps_old_items(g, mp) == g

\* "Clear old items": OPTIONAL MATCH (mp)-[:HAS_ITEM]->(oldItem) DETACH DELETE.
MealPlan_clear_old_items(g, mp) ==
  DetachDelete(g, ItemsOf(g, mp, "MealPlanItem"))

\* _upsert_cypher applied to a graph.  MERGE on a null id is an error of the
\* graph store, and the write then changes nothing.
MealPlan_upsert_cypher(g, meal_plan, items) ==
  IF meal_plan.household_id = NULL
  THEN [graph |-> g, raised |-> TRUE]
  ELSE LET h  == Key("Household", meal_plan.household_id)
           mp == Key("MealPlan", meal_plan.id)
           g1 == SetProp(MergeNode(g, h), h, meal_plan.household)
           g2 == SetProp(MergeNode(g1, mp), mp, meal_plan.val)
           g3 == MergeEdge(g2, "HAS_MEAL_PLAN", h, mp)
           g4 == MealPlan_clear_old_items(g3, mp)
       IN  [graph |-> MealPlan_unwind_items(g4, mp, items), raised |-> FALSE]

\* The first n steps of _upsert_cypher: the household, the root with its
\* HAS_MEAL_PLAN edge, the clearing of the old items, then one step per item
\* row (the item with its recipe).
MealPlan_upsert_prefix(g, meal_plan, items, n) ==
  LET h  == Key("Household", meal_plan.household_id)
      mp == Key("MealPlan", meal_plan.id)
      g1 == SetProp(MergeNode(g, h), h, meal_plan.household)
      g2 == MergeEdge(SetProp(MergeNode(g1, mp), mp, meal_plan.val),
                      "HAS_MEAL_PLAN", h, mp)
      g3 == MealPlan_clear_old_items(g2, mp)
  IN  IF n = 0 THEN g
      ELSE IF n = 1 THEN g1
      ELSE IF n = 2 THEN g2
      ELSE MealPlan_unwind_items(g3, mp, SubSeq(items, 1, n - 3))

MealPlan_steps(items) == 3 + Len(items)

\* _delete_cypher: MATCH (mp:MealPlan {id: $id}) DETACH DELETE mp
\* A delete that cascades to every node the root is linked with.
MealPlan_delete_cascade(g, id) ==
  LET root == Key("MealPlan", id)
  IN  DetachDelete(g, {root} \cup {e[2] : e \in {x \in g.edges : x[3] = root}}
                             \cup {e[3] : e \in {x \in g.edges : x[2] = root}})

MealPlan_delete_cypher(g, id) == DetachDelete(g, {Key("MealPlan", id)})

\* ------------------------------------------------- ShoppingListPipeline
RECURSIVE ShoppingList_unwind_items(_, _, _)
ShoppingList_unwind_items(g, sl, items) ==
  IF items = <<>> THEN g
  ELSE LET it  == Head(items)
           sli == Key("ShoppingListItem", it.id)
           p   == Key("Product", it.product_id)
           ing == Key("Ingredient", it.ingredient_id)
           sp  == Key("Product", it.substituted_product_id)
           g1  == SetProp(MergeNode(g, sli), sli, it.val)
           g2  == MergeEdge(g1, "HAS_ITEM", sl, sli)
           g3  == IF it.product_id = NULL THEN g2
                  ELSE LET a == MergeNode(g2, p)
                           b == SetProp(a, p, Coalesce(it.product_name, Prop(a, p)))
                       IN  MergeEdge(b, "USES_PRODUCT", sli, p)
           g4  == IF it.ingredient_id = NULL THEN g3
                  ELSE LET a == MergeNode(g3, ing)
                           b == SetProp(a, ing, Coalesce(it.ingredient_name, Prop(a, ing)))
                       IN  MergeEdge(b, "USES_INGREDIENT", sli, ing)
           g5  == IF it.substituted_product_id = NULL THEN g4
                  ELSE MergeEdge(MergeNode(g4, sp), "SUBSTITUTE_PRODUCT", sli, sp)
       IN  ShoppingList_unwind_items(g5, sl, Tail(items))

ShoppingList_clear_old_items(g, sl) ==
  DetachDelete(g, ItemsOf(g, sl, "ShoppingListItem"))

\* A vendor step without the FOREACH guard on $vendor.id.
ShoppingList_vendor_unguarded(g, sl, vendor) ==
  LET v == Key("Vendor", vendor.id)
  IN  MergeEdge(SetProp(MergeNode(g, v), v, vendor.name), "TARGETS_VENDOR", sl, v)

\* "Vendor (optional)"
ShoppingList_vendor(g, sl, vendor) ==
  IF vendor.id = NULL THEN g
  ELSE LET v == Key("Vendor", vendor.id)
       IN  MergeEdge(SetProp(MergeNode(g, v), v, vendor.name),
                     "TARGETS_VENDOR", sl, v)

\* A link step that MERGEs the meal plan instead of MATCHing it.
ShoppingList_link_merges_target(g, sl, meal_plan_id) ==
  IF meal_plan_id # NULL
  THEN MergeEdge(MergeNode(g, Key("MealPlan", meal_plan_id)),
                 "GENERATES_LIST", Key("MealPlan", meal_plan_id), sl)
  ELSE g

\* "Link to meal plan if provided"
ShoppingList_link_meal_plan(g, sl, meal_plan_id) ==
  IF meal_plan_id # NULL /\ HasNode(g, Key("MealPlan", meal_plan_id))
  THEN MergeEdge(g, "GENERATES_LIST", Key("MealPlan", meal_plan_id), sl)
  ELSE g

ShoppingList_upsert_cypher(g, shopping_list, vendor, items, meal_plan_id) ==
  IF shopping_list.household_id = NULL
  THEN [graph |-> g, raised |-> TRUE]
  ELSE LET h  == Key("Household", shopping_list.household_id)
           sl == Key("ShoppingList", shopping_list.id)
           g1 == SetProp(MergeNode(g, h), h, shopping_list.household)
           g2 == SetProp(MergeNode(g1, sl), sl, shopping_list.val)
           g3 == MergeEdge(g2, "HAS_SHOPPING_LIST", h, sl)
           g4 == ShoppingList_vendor(g3, sl, vendor)
           g5 == ShoppingList_clear_old_items(g4, sl)
           g6 == ShoppingList_unwind_items(g5, sl, items)
       IN  [graph |-> ShoppingList_link_meal_plan(g6, sl, meal_plan_id),
            raised |-> FALSE]

\* The first n steps of _upsert_cypher: the household, the root with its
\* HAS_SHOPPING_LIST edge, the vendor, the clearing of the old items, one
\* step per item row (the item with its leaves), then the link to the meal
\* plan.
ShoppingList_upsert_prefix(g, shopping_list, vendor, items, meal_plan_id, n) ==
  LET h  == Key("Household", shopping_list.household_id)
      sl == Key("ShoppingList", shopping_list.id)
      g1 == SetProp(MergeNode(g, h), h, shopping_list.household)
      g2 == MergeEdge(SetProp(MergeNode(g1, sl), sl, shopping_list.val),
                      "HAS_SHOPPING_LIST", h, sl)
      g3 == ShoppingList_vendor(g2, sl, vendor)
      g4 == ShoppingList_clear_old_items(g3, sl)
  IN  IF n = 0 THEN g
      ELSE IF n = 1 THEN g1
      ELSE IF n = 2 THEN g2
      ELSE IF n = 3 THEN g3
      ELSE IF n <= 4 + Len(items)
      THEN ShoppingList_unwind_items(g4, sl, SubSeq(items, 1, n - 4))
      ELSE ShoppingList_link_meal_plan(
             ShoppingList_unwind_items(g4, sl, items), sl, meal_plan_id)

ShoppingList_steps(items) == 5 + Len(items)

ShoppingList_delete_cypher(g, id) == DetachDelete(g, {Key("ShoppingList", id)})

\* ----------------------------------------------------------- handle_event
Ops == {"CREATE", "UPDATE", "DELETE", "delete"}

\* str.upper() on the op values in use
Upper(op) == IF op = "delete" THEN "DELETE" ELSE op

\* What the stores do during one handle_event: answer, or fail the read that
\* loads the snapshot, or fail the graph write.
Faults == {"none", "read", "write"}

\* The relational reads of one handle_event for an aggregate of type t and
\* id: the root row (or none), the item rows and, for a shopping list, the
\* result of load_meal_plan_id.
Reads(t, id) ==
  IF t = "meal_plan"
  THEN {[row |-> NoRow, items |-> <<>>, meal_plan_id |-> NULL]} \cup
       {[row |-> r, items |-> s, meal_plan_id |-> NULL] :
           r \in {x \in MealPlanRows(id) : JoinedRow(x)}, s \in MealItemLists}
  ELSE {[row |-> NoRow, items |-> <<>>, meal_plan_id |-> NULL]} \cup
       {[row |-> r, items |-> s, meal_plan_id |-> m] :
           r \in {x \in ShoppingListRows(id) : JoinedListRow(x)},
           s \in ShoppingItemLists, m \in MealPlanIds \cup {NULL}}

\* neo4j.write(query, params): one write, applied whole or not at all.
Neo4j_write(g, result, fault) ==
  IF fault = "write" THEN [graph |-> g, raised |-> TRUE] ELSE result

\* A handle_event that trusts the event's op: DELETE deletes without
\* looking at the row.
MealPlan_handle_event_trusts_op(g, event, read, fault) ==
  IF fault = "read" THEN [graph |-> g, raised |-> TRUE]
  ELSE IF Upper(event.op) = "DELETE"
  THEN Neo4j_write(g, [graph |-> MealPlan_delete_cypher(g, event.aggregate_id),
                       raised |-> FALSE], fault)
  ELSE IF read.row = NoRow THEN [graph |-> g, raised |-> FALSE]
  ELSE Neo4j_write(g, MealPlan_upsert_cypher(g, read.row, read.items), fault)

MealPlanPipeline_handle_event(g, event, read, fault) ==
  IF fault = "read" THEN [graph |-> g, raised |-> TRUE]
  ELSE IF read.row = NoRow
  THEN IF Upper(event.op) = "DELETE"
       THEN Neo4j_write(g, [graph |-> MealPlan_delete_cypher(g, event.aggregate_id),
                            raised |-> FALSE], fault)
       ELSE [graph |-> g, raised |-> FALSE]
  ELSE Neo4j_write(g, MealPlan_upsert_cypher(g, read.row, read.items), fault)

ShoppingListPipeline_handle_event(g, event, read, fault) ==
  IF fault = "read" THEN [graph |-> g, raised |-> TRUE]
  ELSE IF read.row = NoRow
  THEN IF Upper(event.op) = "DELETE"
       THEN Neo4j_write(g, [graph |-> ShoppingList_delete_cypher(g, event.aggregate_id),
                            raised |-> FALSE], fault)
       ELSE [graph |-> g, raised |-> FALSE]
  ELSE Neo4j_write(g, ShoppingList_upsert_cypher(g, read.row,
                        [id |-> read.row.vendor_id, name |-> read.row.vendor_name],
                        read.items, read.meal_plan_id), fault)

\* ------------------------------------------------------------------ state
VARIABLES
  graph,       \* the graph store
  last,        \* the handle_event call that ran last
  ops,         \* handle_event calls so far (SpecMerge)
  outbox,      \* the outbox table: a sequence of event rows, id = index
  batch,       \* main's events: the ids the last claim returned
  pos,         \* process_batch's position in the batch
  pc,          \* where main is: "pg_pool", "neo4j", "pipelines" (SpecMain),
               \* "claim", "sleep", "batch" or "exited"
  log,         \* what process_batch did for each event of the batch so far
  dispatched,  \* per event id, how often a pipeline was handed the event
  pg_pool,     \* main's relational pool: "unset", "open" or "closed"
  neo4j,       \* main's graph client: "unset", "open" or "closed"
  workers      \* per worker process of a fleet: where its main is (SpecWorkers)

vars == <<graph, last, ops, outbox, batch, pos, pc, log, dispatched,
          pg_pool, neo4j, workers>>

handles == <<pg_pool, neo4j>>

workerVars == <<outbox, batch, pos, pc, log, dispatched, pg_pool, neo4j, workers>>

\* The worker processes of a fleet, and one of them before its first poll.
Workers == {1, 2}

Polling == [pc |-> "claim", batch |-> <<>>, events |-> <<>>, pos |-> 1]

NoCall == [aggregate_type |-> "none", aggregate_id |-> NULL, op |-> "none",
           absent |-> FALSE, raised |-> FALSE]

Init ==
  /\ graph = EmptyGraph
  /\ last = NoCall
  /\ ops = 0
  /\ outbox = <<>>
  /\ batch = <<>>
  /\ pos = 1
  /\ pc = "claim"
  /\ log = <<>>
  /\ dispatched = <<>>
  /\ pg_pool = "open"
  /\ neo4j = "open"
  /\ workers = [w \in Workers |-> Polling]

\* ------------------------------------------------- the pipelines, directly
\* PIPELINES[aggregate_type].handle_event(event)
Pipeline_handle_event(g, event, read, fault) ==
  IF event.aggregate_type = "meal_plan"
  THEN MealPlanPipeline_handle_event(g, event, read, fault)
  ELSE ShoppingListPipeline_handle_event(g, event, read, fault)

Called(event, read, result) ==
  [aggregate_type |-> event.aggregate_type, aggregate_id |-> event.aggregate_id,
   op |-> event.op, absent |-> (read.row = NoRow), raised |-> result.raised]

AbsentRead == [row |-> NoRow, items |-> <<>>, meal_plan_id |-> NULL]

\* One handle_event call on the current graph, the limit-th at most.
HandleEvent(limit, t, id, op, read, fault) ==
  LET event  == [aggregate_type |-> t, aggregate_id |-> id, op |-> op]
      result == Pipeline_handle_event(graph, event, read, fault)
  IN  /\ ops < limit
      /\ graph' = result.graph
      /\ last' = Called(event, read, result)
      /\ ops' = ops + 1
      /\ UNCHANGED workerVars

\* The relational row is gone when the event is handled.
HandleAbsent(limit) ==
  \E t \in AGG_TYPES : \E id \in AggregateIds(t) : \E op \in Ops :
    \E fault \in Faults : HandleEvent(limit, t, id, op, AbsentRead, fault)

\* The relational row is there, whatever the event's op says.
HandlePresent(limit) ==
  \E t \in AGG_TYPES : \E id \in AggregateIds(t) : \E op \in {"UPDATE", "DELETE"} :
    \E read \in Reads(t, id) \ {AbsentRead} :
      HandleEvent(limit, t, id, op, read, "none")

\* A store fails while the row is there: the read or the graph write.
HandleFault(limit) ==
  \E t \in AGG_TYPES : \E id \in AggregateIds(t) : \E op \in {"UPDATE", "DELETE"} :
    \E fault \in Faults \ {"none"} :
      \E read \in {r \in Reads(t, id) : r.row # NoRow /\ r.items = <<>>
                                         /\ r.meal_plan_id = NULL} :
        HandleEvent(limit, t, id, op, read, fault)

NextMerge == HandleAbsent(MaxOps) \/ HandlePresent(MaxOps) \/ HandleFault(MaxOps)

\* Runs of up to MaxOps handle_event calls on any events and snapshots.
SpecMerge == Init /\ [][NextMerge]_vars

NextSync == HandleAbsent(MaxSyncs) \/ HandlePresent(MaxSyncs) \/ HandleFault(MaxSyncs)

\* The graphs that up to MaxSyncs earlier handle_event calls leave behind.
SpecSync == Init /\ [][NextSync]_vars

\* ------------------------------------------------------------ outbox store
\* Events the write side inserts; "recipe" stands for an aggregate type no
\* pipeline is registered for.
EventTypes == AGG_TYPES \cup {"recipe"}
WorkerOps == {"UPDATE", "DELETE"}
WorkerAggregateIds == {1}

NewEvent(t, id, op) ==
  [aggregate_type |-> t, aggregate_id |-> id, op |-> op,
   attempts |-> 0, status |-> "pending"]

\* What a claim may return: not yet processed, attempts below max_attempts,
\* of one of the aggregate types asked for.
Claimable(e, max_attempts, aggregate_types) ==
  /\ e.status # "processed"
  /\ e.attempts < max_attempts
  /\ e.aggregate_type \in aggregate_types

ClaimableIds(ob, max_attempts, aggregate_types) ==
  {i \in DOMAIN ob : Claimable(ob[i], max_attempts, aggregate_types)}

Min(a, b) == IF a < b THEN a ELSE b

RECURSIVE Arrangements(_, _)
Arrangements(ids, n) ==
  IF n = 0 THEN {<<>>}
  ELSE UNION {{<<i>> \o s : s \in Arrangements(ids \ {i}, n - 1)} : i \in ids}

\* fetch_pending_events: up to batch_size claimable events, in whatever order
\* the store selects them.
fetch_pending_events(ob, batch_size, max_attempts, aggregate_types) ==
  LET ids == ClaimableIds(ob, max_attempts, aggregate_types)
  IN  Arrangements(ids, Min(batch_size, Cardinality(ids)))

mark_processed(ob, id) == [ob EXCEPT ![id].status = "processed"]

mark_failed(ob, id) ==
  [ob EXCEPT ![id].status = "failed", ![id].attempts = @ + 1]

\* ------------------------------------------------------------- runner.py
\* What can go wrong with the outbox store while process_batch records an
\* outcome: nothing, mark_processed alone raises, or the store is down and
\* every bookkeeping call (pg_pool.connection, mark_processed, mark_failed)
\* raises.
OutboxFaults == {"none", "mark_processed", "down"}

\* The outcome of an iteration that calls nothing for the event.
Skipped(g) ==
  [graph |-> g, called |-> FALSE, raised |-> FALSE, mark |-> "none",
   propagated |-> FALSE]

\* A loop body whose except clause logs and forgets to call mark_failed.
process_event_swallows(g, event, read, fault, book) ==
  IF event.aggregate_type \in {"meal_plan", "shopping_list"}
  THEN LET r == Pipeline_handle_event(g, event, read, fault)
           caught == r.raised \/ book # "none"
       IN  [graph |-> r.graph, called |-> TRUE, raised |-> r.raised,
            mark |-> IF caught THEN "none" ELSE "processed",
            propagated |-> FALSE]
  ELSE Skipped(g)

\* A loop body that treats an unrecognized aggregate type as a failure.
process_event_unknown_fails(g, event, read, fault, book) ==
  IF event.aggregate_type \in {"meal_plan", "shopping_list"}
  THEN LET r == Pipeline_handle_event(g, event, read, fault)
           caught == r.raised \/ book # "none"
       IN  [graph |-> r.graph, called |-> TRUE, raised |-> r.raised,
            mark |-> IF ~caught THEN "processed"
                     ELSE IF book = "down" THEN "none" ELSE "failed",
            propagated |-> caught /\ book = "down"]
  ELSE [graph |-> g, called |-> FALSE, raised |-> TRUE,
        mark |-> IF book = "down" THEN "none" ELSE "failed",
        propagated |-> book = "down"]

\* One iteration of process_batch's loop: what it calls for the event, which
\* bookkeeping call takes effect, and whether an exception leaves the loop.
\* The try block covers handle_event and mark_processed; the except clause
\* calls mark_failed outside any try, so what it raises leaves process_batch.
process_event(g, event, read, fault, book) ==
  IF event.aggregate_type \in {"meal_plan", "shopping_list"}
  THEN LET r == Pipeline_handle_event(g, event, read, fault)
           caught == r.raised \/ book # "none"
       IN  [graph |-> r.graph, called |-> TRUE, raised |-> r.raised,
            mark |-> IF ~caught THEN "processed"
                     ELSE IF book = "down" THEN "none" ELSE "failed",
            propagated |-> caught /\ book = "down"]
  ELSE Skipped(g)

Bookkeeping(ob, id, mark) ==
  IF mark = "processed" THEN mark_processed(ob, id)
  ELSE IF mark = "failed" THEN mark_failed(ob, id)
  ELSE ob

\* The reads a handle_event of the worker's run sees: no row, a row whose
\* merge succeeds, or a row whose merge the graph store rejects.
WorkerReads(event) ==
  IF event.aggregate_type \in AGG_TYPES
  THEN {r \in Reads(event.aggregate_type, event.aggregate_id) :
           /\ r.items = <<>>
           /\ r.meal_plan_id = NULL
           /\ r.row # NoRow /\ event.aggregate_type = "shopping_list"
                => r.row.vendor_id = NULL}
  ELSE {AbsentRead}

\* main's finally clause: neo4j.close(), then pg_pool.close().
Finally ==
  /\ neo4j' = "closed"
  /\ pg_pool' = "closed"

\* One iteration of process_batch's loop inside main's try: an exception
\* that leaves process_batch leaves main through the finally clause.
ProcessEvent ==
  /\ pc = "batch"
  /\ pos <= Len(batch)
  /\ LET id    == batch[pos]
         event == outbox[id]
     IN  \E read \in WorkerReads(event) : \E fault \in Faults :
         \E book \in (IF event.aggregate_type \in AGG_TYPES
                      THEN OutboxFaults ELSE {"none"}) :
           LET r == process_event(graph, event, read, fault, book)
           IN  /\ graph' = r.graph
               /\ outbox' = Bookkeeping(outbox, id, r.mark)
               /\ log' = Append(log, [id |-> id, called |-> r.called,
                                      raised |-> r.raised, mark |-> r.mark,
                                      absent |-> (fault # "read" /\ read.row = NoRow)])
               /\ dispatched' = [dispatched EXCEPT ![id] = @ + (IF r.called THEN 1 ELSE 0)]
               /\ pos' = pos + 1
               /\ pc' = IF r.propagated THEN "exited"
                        ELSE IF pos = Len(batch) THEN "claim" ELSE "batch"
               /\ IF r.propagated THEN Finally ELSE UNCHANGED handles
               /\ UNCHANGED <<last, ops, batch, workers>>

\* main, lines 54-69: claim a batch and commit; sleep when it is empty,
\* otherwise hand it to process_batch.
Claim ==
  /\ pc = "claim"
  /\ \E events \in fetch_pending_events(outbox, BatchSize, MaxAttempts, AGG_TYPES) :
       /\ batch' = events
       /\ pc' = IF events = <<>> THEN "sleep" ELSE "batch"
  /\ pos' = 1
  /\ log' = <<>>
  /\ UNCHANGED <<graph, last, ops, outbox, dispatched, handles, workers>>

\* time.sleep(poll_interval_seconds); continue
Sleep ==
  /\ pc = "sleep"
  /\ pc' = "claim"
  /\ UNCHANGED <<graph, last, ops, outbox, batch, pos, log, dispatched,
                 handles, workers>>

\* The relational write side inserts an event with its transaction.
WriteSide ==
  /\ Len(outbox) < MaxEvents
  /\ \E t \in EventTypes : \E id \in WorkerAggregateIds : \E op \in WorkerOps :
       /\ outbox' = Append(outbox, NewEvent(t, id, op))
       /\ dispatched' = Append(dispatched, 0)
  /\ UNCHANGED <<graph, last, ops, batch, pos, pc, log, handles, workers>>

Next == WriteSide \/ Claim \/ Sleep \/ ProcessEvent

Spec == Init /\ [][Next]_vars

\* The worker keeps running: each step of main that can be taken is taken.
FairSpec == Spec /\ WF_vars(Claim) /\ WF_vars(Sleep) /\ WF_vars(ProcessEvent)

\* ------------------------------------------------------ main, start to exit
\* main from its first line: the handles are built before the try block.
InitMain ==
  /\ graph = EmptyGraph
  /\ last = NoCall
  /\ ops = 0
  /\ outbox = <<>>
  /\ batch = <<>>
  /\ pos = 1
  /\ pc = "pg_pool"
  /\ log = <<>>
  /\ dispatched = <<>>
  /\ pg_pool = "unset"
  /\ neo4j = "unset"
  /\ workers = [w \in Workers |-> Polling]

mainFrame == <<graph, last, ops, outbox, batch, pos, log, dispatched, workers>>

\* pg_pool = PostgresPool(settings.supabase_dsn)
NewPostgresPool ==
  /\ pc = "pg_pool"
  /\ \/ pg_pool' = "open" /\ pc' = "neo4j"
     \/ pg_pool' = pg_pool /\ pc' = "exited"
  /\ UNCHANGED <<neo4j, mainFrame>>

\* neo4j = Neo4jClient(...): an exception here is raised before the try
\* block is entered, so no finally clause runs.
NewNeo4jClient ==
  /\ pc = "neo4j"
  /\ \/ neo4j' = "open" /\ pc' = "pipelines"
     \/ neo4j' = neo4j /\ pc' = "exited"
  /\ UNCHANGED <<pg_pool, mainFrame>>

\* meal_pipeline = MealPlanPipeline(...); shopping_pipeline =
\* ShoppingListPipeline(...): still before the try block.
NewPipelines ==
  /\ pc = "pipelines"
  /\ pc' \in {"claim", "exited"}
  /\ UNCHANGED <<handles, mainFrame>>

\* The claim raises (pg_pool.connection, fetch_pending_events or commit):
\* the exception leaves the loop through the finally clause.
ClaimRaises ==
  /\ pc = "claim"
  /\ pc' = "exited"
  /\ Finally
  /\ UNCHANGED mainFrame

NextMain ==
  \/ NewPostgresPool \/ NewNeo4jClient \/ NewPipelines \/ ClaimRaises
  \/ WriteSide \/ Claim \/ Sleep \/ ProcessEvent

SpecMain == InitMain /\ [][NextMain]_vars

\* ------------------------------------------- several workers, one outbox
\* Each worker process runs main's loop. A claim is a transaction: the
\* fetch locks the rows it returns and skips the rows another open claim
\* has locked; conn.commit() ends the transaction and with it the locks.
Held(w) ==
  IF workers[w].pc \in {"commit", "batch", "handling"}
  THEN {workers[w].batch[i] : i \in workers[w].pos..Len(workers[w].batch)}
  ELSE {}

Locked(w) == IF workers[w].pc = "commit" THEN Held(w) ELSE {}

LockedByOthers(w) == UNION {Locked(v) : v \in Workers \ {w}}

\* fetch_pending_events under skip-locked row locking.
fetch_skip_locked(ob, locked, batch_size, max_attempts, aggregate_types) ==
  LET ids == ClaimableIds(ob, max_attempts, aggregate_types) \ locked
  IN  Arrangements(ids, Min(batch_size, Cardinality(ids)))

fleetFrame == <<last, ops, batch, pos, pc, log, handles>>

\* events = fetch_pending_events(conn, ...) inside the open transaction
WFetch(w) ==
  /\ workers[w].pc = "claim"
  /\ \E ids \in fetch_skip_locked(outbox, LockedByOthers(w), BatchSize,
                                   MaxAttempts, AGG_TYPES) :
       workers' = [workers EXCEPT ![w] =
                     [pc |-> "commit", batch |-> ids,
                      events |-> [i \in DOMAIN ids |-> outbox[ids[i]]],
                      pos |-> 1]]
  /\ UNCHANGED <<graph, outbox, dispatched, fleetFrame>>

\* conn.commit(), then sleep on an empty batch or process_batch
WCommit(w) ==
  /\ workers[w].pc = "commit"
  /\ workers' = [workers EXCEPT ![w].pc =
                   IF workers[w].batch = <<>> THEN "sleep" ELSE "batch"]
  /\ UNCHANGED <<graph, outbox, dispatched, fleetFrame>>

WSleep(w) ==
  /\ workers[w].pc = "sleep"
  /\ workers' = [workers EXCEPT ![w] = Polling]
  /\ UNCHANGED <<graph, outbox, dispatched, fleetFrame>>

\* process_batch enters the try block for the next event of the batch
WDispatch(w) ==
  /\ workers[w].pc = "batch"
  /\ workers' = [workers EXCEPT ![w].pc = "handling"]
  /\ UNCHANGED <<graph, outbox, dispatched, fleetFrame>>

\* handle_event and the bookkeeping call for the event being handled
WRecord(w) ==
  /\ workers[w].pc = "handling"
  /\ LET me    == workers[w]
         id    == me.batch[me.pos]
         event == me.events[me.pos]
     IN  \E read \in WorkerReads(event) : \E fault \in Faults :
         \E book \in OutboxFaults :
           LET r == process_event(graph, event, read, fault, book)
           IN  /\ graph' = r.graph
               /\ outbox' = Bookkeeping(outbox, id, r.mark)
               /\ workers' = [workers EXCEPT ![w] =
                    IF r.propagated THEN [Polling EXCEPT !.pc = "exited"]
                    ELSE IF me.pos = Len(me.batch) THEN Polling
                    ELSE [me EXCEPT !.pc = "batch", !.pos = @ + 1]]
  /\ UNCHANGED <<dispatched, fleetFrame>>

\* The process dies and is started again: an open claim transaction is
\* rolled back, the events list is lost, the outbox is as it was.
WCrash(w) ==
  /\ workers[w].pc \in {"commit", "batch", "handling"}
  /\ workers' = [workers EXCEPT ![w] = Polling]
  /\ UNCHANGED <<graph, outbox, dispatched, fleetFrame>>

\* The write side, inserting update events of the recognized types.
FleetWriteSide ==
  /\ WriteSide
  /\ \A i \in DOMAIN outbox' : /\ outbox'[i].aggregate_type \in AGG_TYPES
                                /\ outbox'[i].op = "UPDATE"

NextWorkers ==
  \/ FleetWriteSide
  \/ \E w \in Workers : WFetch(w)
  \/ \E w \in Workers : WCommit(w)
  \/ \E w \in Workers : WSleep(w)
  \/ \E w \in Workers : WDispatch(w)
  \/ \E w \in Workers : WRecord(w)
  \/ \E w \in Workers : WCrash(w)

SpecWorkers == Init /\ [][NextWorkers]_vars

\* process_batch handed any batch: events of any aggregate type, fresh or
\* on their last attempt, in any order (the outbox is any sequence of them
\* and the batch is all of it).
BatchEvents ==
  {[aggregate_type |-> t, aggregate_id |-> id, op |-> op, attempts |-> a,
    status |-> IF a = 0 THEN "pending" ELSE "failed"] :
      t \in EventTypes, id \in WorkerAggregateIds, op \in WorkerOps,
      a \in {0, MaxAttempts - 1}}

InitBatch ==
  /\ graph = EmptyGraph
  /\ last = NoCall
  /\ ops = 0
  /\ \E n \in 1..MaxEvents : outbox \in [1..n -> BatchEvents]
  /\ batch = [i \in DOMAIN outbox |-> i]
  /\ pos = 1
  /\ pc = "batch"
  /\ log = <<>>
  /\ dispatched = [i \in DOMAIN outbox |-> outbox[i].attempts]
  /\ pg_pool = "open"
  /\ neo4j = "open"
  /\ workers = [w \in Workers |-> Polling]

SpecBatch == InitBatch /\ [][ProcessEvent]_vars

\* =================================================================== claims
RootLabel(t) == IF t = "meal_plan" THEN "MealPlan" ELSE "ShoppingList"

ItemLabel(t) == IF t = "meal_plan" THEN "MealPlanItem" ELSE "ShoppingListItem"

RootLabels == {"MealPlan", "ShoppingList"}

ItemLabels == {"MealPlanItem", "ShoppingListItem"}

SharedLabels == {"Household", "Recipe", "Product", "Ingredient", "Vendor"}

GraphEvent(t, id, op) == [aggregate_type |-> t, aggregate_id |-> id, op |-> op]

\* The last call handled a DELETE event whose row was absent, and returned.
DeleteHandled(c) ==
  /\ c.aggregate_type \in AGG_TYPES
  /\ c.absent
  /\ Upper(c.op) = "DELETE"
  /\ ~c.raised

\* The items of root that no other node links with HAS_ITEM.
ExclusiveItems(g, root, itemLabel) ==
  {k \in ItemsOf(g, root, itemLabel) :
      \A e \in g.edges : (e[1] = "HAS_ITEM" /\ e[3] = k) => e[2] = root}

\* C4: when handle_event processes a DELETE event whose relational row is
\* absent, the graph afterwards holds neither the root aggregate node nor any
\* child item node that was reachable only through that root's HAS_ITEM edges.
C4_DeleteCompleteness ==
  [][DeleteHandled(last') =>
       LET root == Key(RootLabel(last'.aggregate_type), last'.aggregate_id)
       IN  /\ ~HasNode(graph', root)
           /\ \A k \in ExclusiveItems(graph, root, ItemLabel(last'.aggregate_type)) :
                ~HasNode(graph', k)]_vars

\* The nodes a delete of the aggregate (t, id) must leave alone, with their
\* properties: the shared entities and every other root aggregate.
KeptNodes(g, t, id) ==
  [k \in {n \in DOMAIN g.nodes :
             \/ n[1] \in SharedLabels
             \/ n[1] \in RootLabels /\ n # Key(RootLabel(t), id)} |-> g.nodes[k]]

\* C5 as claimed: handling a DELETE event for a root aggregate, whatever the
\* relational store holds for it, never removes or changes a Household,
\* Recipe, Product, Ingredient or Vendor node, nor any other root aggregate
\* node: the same nodes with the same properties before and after.
C5_DeleteEventLeavesShared ==
  \A t \in AGG_TYPES : \A id \in AggregateIds(t) : \A op \in {"DELETE", "delete"} :
    \A read \in Reads(t, id) : \A fault \in Faults :
      LET r == Pipeline_handle_event(graph, GraphEvent(t, id, op), read, fault)
      IN  KeptNodes(r.graph, t, id) = KeptNodes(graph, t, id)

\* C5, amended: handling a DELETE event for a root aggregate whose row is absent never
\* removes or changes a Household, Recipe, Product, Ingredient or Vendor node,
\* nor any other root aggregate node: the same nodes with the same properties
\* before and after, whether the graph write succeeds or fails.
C5_DeleteLeavesShared ==
  \A t \in AGG_TYPES : \A id \in AggregateIds(t) : \A op \in {"DELETE", "delete"} :
    \A fault \in Faults :
      LET r == Pipeline_handle_event(graph, GraphEvent(t, id, op), AbsentRead, fault)
      IN  KeptNodes(r.graph, t, id) = KeptNodes(graph, t, id)

\* A delete has run and removed a root while a household with its
\* properties, a recipe and an item of the deleted root are in the graph.
C5_Witness ==
  /\ DeleteHandled(last)
  /\ last.aggregate_type = "meal_plan"
  /\ ~HasNode(graph, Key("MealPlan", last.aggregate_id))
  /\ Prop(graph, Key("Household", 1)) # NULL
  /\ Prop(graph, Key("Recipe", 1)) # NULL
  /\ \E i \in MealItemIds : HasNode(graph, Key("MealPlanItem", i))

\* The upsert merge of one snapshot, as handle_event runs it.
Merge(g, t, id, read) ==
  Pipeline_handle_event(g, GraphEvent(t, id, "UPDATE"), read, "none").graph

\* C7: for every graph state and every aggregate snapshot, applying the
\* upsert merge twice in a row with the same snapshot yields the same graph
\* as applying it once.
C7_MergeIdempotent ==
  \A t \in AGG_TYPES : \A id \in AggregateIds(t) :
    \A read \in Reads(t, id) \ {AbsentRead} :
      Merge(Merge(graph, t, id, read), t, id, read) = Merge(graph, t, id, read)

\* handle_event for the event (t, id, op) when the relational state is read.
Apply(g, t, id, op, read) ==
  Pipeline_handle_event(g, GraphEvent(t, id, op), read, "none").graph

\* C8: for any two outbox events for the same aggregate id, whatever their
\* ops, when both reads observe the same relational state, handling the two
\* in either order, or handling either one a second time, leaves the graph
\* in the same final state.
C8_Convergence ==
  \A t \in AGG_TYPES : \A id \in AggregateIds(t) : \A read \in Reads(t, id) :
    \A op1, op2 \in Ops :
      LET a   == Apply(graph, t, id, op1, read)
          ab  == Apply(a, t, id, op2, read)
          ba  == Apply(Apply(graph, t, id, op2, read), t, id, op1, read)
          aab == Apply(Apply(a, t, id, op1, read), t, id, op2, read)
          abb == Apply(ab, t, id, op2, read)
      IN  ab = ba /\ ab = aab /\ ab = abb

\* After one merge of a meal plan with an item, that item listed under the
\* other meal plan: an UPDATE and a DELETE event for the other plan leave the
\* same graph in either order, and not the graph the first of them left.
C8_Witness ==
  /\ last.aggregate_type = "meal_plan" /\ ~last.absent /\ ~last.raised
  /\ \E i \in MealItemIds :
       /\ <<"HAS_ITEM", Key("MealPlan", 1), Key("MealPlanItem", i)>> \in graph.edges
       /\ \E read \in Reads("meal_plan", 2) :
            /\ read.row # NoRow
            /\ read.items # <<>> /\ read.items[1].id = i
            /\ LET a  == Apply(graph, "meal_plan", 2, "UPDATE", read)
                   ab == Apply(a, "meal_plan", 2, "DELETE", read)
                   ba == Apply(Apply(graph, "meal_plan", 2, "DELETE", read),
                               "meal_plan", 2, "UPDATE", read)
               IN  ab = ba /\ ab # a

\* ------------------------------------------------------ the merge's claims
PresentReads(t, id) == {read \in Reads(t, id) : read.row # NoRow}

\* The upsert merge of the snapshot is accepted by the graph store.
MergeSucceeds(g, t, id, read) ==
  ~Pipeline_handle_event(g, GraphEvent(t, id, "UPDATE"), read, "none").raised

SnapshotItems(t, read) ==
  {Key(ItemLabel(t), read.items[i].id) : i \in 1..Len(read.items)}

EdgesAt(g, k) == {e \in g.edges : e[2] = k \/ e[3] = k}

\* C13: right after a successful upsert merge of a root aggregate, the item
\* nodes linked from the root by HAS_ITEM are exactly the items of the
\* snapshot; every item linked before and not in the snapshot is gone as a
\* node, and no edge to or from it remains.
C13_ChildrenReplaced ==
  \A t \in AGG_TYPES : \A id \in AggregateIds(t) : \A read \in PresentReads(t, id) :
    MergeSucceeds(graph, t, id, read) =>
      LET root == Key(RootLabel(t), id)
          g2   == Merge(graph, t, id, read)
      IN  /\ ItemsOf(g2, root, ItemLabel(t)) = SnapshotItems(t, read)
          /\ \A k \in ItemsOf(graph, root, ItemLabel(t)) \ SnapshotItems(t, read) :
               ~HasNode(g2, k) /\ EdgesAt(g2, k) = {}

\* Meal plan 1 holds item 1 with its recipe edge, and a snapshot of plan 1
\* lists item 2 only: the merge drops item 1 and links item 2.
C13_Witness ==
  /\ Key("MealPlanItem", 1) \in ItemsOf(graph, Key("MealPlan", 1), "MealPlanItem")
  /\ EdgesAt(graph, Key("MealPlanItem", 1)) # {}
  /\ \E read \in PresentReads("meal_plan", 1) :
       /\ MergeSucceeds(graph, "meal_plan", 1, read)
       /\ SnapshotItems("meal_plan", read) = {Key("MealPlanItem", 2)}
       /\ ~HasNode(Merge(graph, "meal_plan", 1, read), Key("MealPlanItem", 1))

NodesOf(g, label) == {k \in DOMAIN g.nodes : k[1] = label}

EdgesOf(g, type) == {e \in g.edges : e[1] = type}

\* C14: when a shopping-list snapshot has vendor_id = NULL the merge creates
\* no Vendor node (none with a null id either) and adds or removes no
\* TARGETS_VENDOR edge, so an edge of an earlier sync stays; when vendor_id is
\* not null, the Vendor node with that id and the TARGETS_VENDOR edge from
\* the list exist after the merge.
C14_VendorOptional ==
  \A id \in ShoppingListIds : \A read \in PresentReads("shopping_list", id) :
    MergeSucceeds(graph, "shopping_list", id, read) =>
      LET sl == Key("ShoppingList", id)
          g2 == Merge(graph, "shopping_list", id, read)
      IN  IF read.row.vendor_id = NULL
          THEN /\ NodesOf(g2, "Vendor") = NodesOf(graph, "Vendor")
               /\ Key("Vendor", NULL) \notin DOMAIN g2.nodes
               /\ EdgesOf(g2, "TARGETS_VENDOR") = EdgesOf(graph, "TARGETS_VENDOR")
          ELSE /\ HasNode(g2, Key("Vendor", read.row.vendor_id))
               /\ <<"TARGETS_VENDOR", sl, Key("Vendor", read.row.vendor_id)>> \in g2.edges

\* A list linked to a vendor by an earlier sync, and a snapshot of that list
\* without vendor: the edge is still there after the merge.
C14_Witness ==
  /\ <<"TARGETS_VENDOR", Key("ShoppingList", 1), Key("Vendor", 1)>> \in graph.edges
  /\ \E read \in PresentReads("shopping_list", 1) :
       /\ read.row.vendor_id = NULL
       /\ MergeSucceeds(graph, "shopping_list", 1, read)
       /\ <<"TARGETS_VENDOR", Key("ShoppingList", 1), Key("Vendor", 1)>>
            \in Merge(graph, "shopping_list", 1, read).edges

LeafLabels == {"Recipe", "Product", "Ingredient"}

\* The leaf nodes a snapshot refers to, and those it names.
ReferencedLeaves(t, read) ==
  IF t = "meal_plan"
  THEN {Key("Recipe", read.items[i].recipe_id) : i \in 1..Len(read.items)}
  ELSE UNION {{Key("Product", read.items[i].product_id),
               Key("Ingredient", read.items[i].ingredient_id),
               Key("Product", read.items[i].substituted_product_id)} :
                 i \in 1..Len(read.items)}

NamedLeaves(t, read) ==
  IF t = "meal_plan"
  THEN {Key("Recipe", read.items[i].recipe_id) :
          i \in {j \in 1..Len(read.items) : read.items[j].recipe_name # NULL}}
  ELSE {Key("Product", read.items[i].product_id) :
          i \in {j \in 1..Len(read.items) : read.items[j].product_name # NULL}}
       \cup {Key("Ingredient", read.items[i].ingredient_id) :
          i \in {j \in 1..Len(read.items) : read.items[j].ingredient_name # NULL}}

\* C15: in every graph the merges and deletes reach, a merge never leaves a
\* Recipe, Product or Ingredient node that had a name without one; a merge
\* whose snapshot has no name for a leaf leaves the leaf's name as it was; and
\* the leaf nodes a merge creates are those of the non-null reference ids of
\* the snapshot's item rows.
C15_LeafNamesKept ==
  \A t \in AGG_TYPES : \A id \in AggregateIds(t) : \A read \in PresentReads(t, id) :
    LET g2     == Merge(graph, t, id, read)
        leaves == {k \in DOMAIN graph.nodes : k[1] \in LeafLabels}
    IN  /\ \A k \in leaves :
             /\ HasNode(g2, k)
             /\ graph.nodes[k] # NULL => g2.nodes[k] # NULL
             /\ k \notin NamedLeaves(t, read) => g2.nodes[k] = graph.nodes[k]
        /\ \A k \in {n \in DOMAIN g2.nodes : n[1] \in LeafLabels} \ leaves :
             k[2] # NULL /\ k \in ReferencedLeaves(t, read)

\* Recipe 1 has a title, and a snapshot refers to recipe 1 with a null name.
C15_Witness ==
  /\ Prop(graph, Key("Recipe", 1)) # NULL
  /\ \E id \in MealPlanIds : \E read \in PresentReads("meal_plan", id) :
       /\ MergeSucceeds(graph, "meal_plan", id, read)
       /\ read.items # <<>>
       /\ read.items[1].recipe_id = 1 /\ read.items[1].recipe_name = NULL
       /\ Prop(Merge(graph, "meal_plan", id, read), Key("Recipe", 1)) # NULL

C17_LinkCorrectedByTargetSync ==
  \A id \in ShoppingListIds : \A read \in PresentReads("shopping_list", id) :
    \A m \in MealPlanIds : \A plan \in PresentReads("meal_plan", m) :
      (/\ read.meal_plan_id = m
       /\ ~HasNode(graph, Key("MealPlan", m))
       /\ MergeSucceeds(graph, "shopping_list", id, read)
       /\ MergeSucceeds(Merge(graph, "shopping_list", id, read), "meal_plan", m, plan))
      => <<"GENERATES_LIST", Key("MealPlan", m), Key("ShoppingList", id)>>
           \in Merge(Merge(graph, "shopping_list", id, read), "meal_plan", m, plan).edges

\* The graph after the first n steps of the upsert merge of a snapshot.
MergePrefix(g, t, id, read, n) ==
  IF t = "meal_plan"
  THEN MealPlan_upsert_prefix(g, read.row, read.items, n)
  ELSE ShoppingList_upsert_prefix(g, read.row,
         [id |-> read.row.vendor_id, name |-> read.row.vendor_name],
         read.items, read.meal_plan_id, n)

MergeSteps(t, read) ==
  IF t = "meal_plan" THEN MealPlan_steps(read.items)
  ELSE ShoppingList_steps(read.items)

\* C18: when a merge stops after any prefix of its steps, running the full
\* merge again with the same snapshot leaves exactly the graph that one
\* uninterrupted merge would have left.
C18_PartialMergeRecoverable ==
  \A t \in AGG_TYPES : \A id \in AggregateIds(t) : \A read \in PresentReads(t, id) :
    MergeSucceeds(graph, t, id, read) =>
      \A n \in 0..MergeSteps(t, read) :
        Merge(MergePrefix(graph, t, id, read, n), t, id, read)
          = Merge(graph, t, id, read)

\* C20: after any sequence of merges and deletes, every MealPlanItem and
\* ShoppingListItem node has a HAS_ITEM edge from exactly one root node.
C20_SingleParent ==
  \A k \in DOMAIN graph.nodes :
    k[1] \in ItemLabels =>
      Cardinality({e \in graph.edges : e[1] = "HAS_ITEM" /\ e[3] = k}) = 1

\* The steps of a merge taken together are the merge.
PrefixComplete ==
  \A t \in AGG_TYPES : \A id \in AggregateIds(t) : \A read \in PresentReads(t, id) :
    MergeSucceeds(graph, t, id, read) =>
      MergePrefix(graph, t, id, read, MergeSteps(t, read)) = Merge(graph, t, id, read)

\* C19: whenever main has terminated, every handle it acquired (the
\* relational pool, the graph client) has been closed.
C19_HandlesReleased ==
  pc = "exited" => pg_pool # "open" /\ neo4j # "open"

\* C11: with several workers polling one outbox under skip-locked claims,
\* no event is in the batches of two workers at the same time, and no event
\* is being handled by two workers at the same time.
C11_MutualExclusion ==
  \A w \in Workers : \A v \in Workers \ {w} :
    /\ Held(w) \cap Held(v) = {}
    /\ workers[w].pc = "handling" /\ workers[v].pc = "handling"
         => workers[w].batch[workers[w].pos] # workers[v].batch[workers[v].pos]

\* C12: handle_event starts only after the claim is committed, and when a
\* worker crashes between the commit and the bookkeeping call for an event,
\* the event is as the claim returned it (same status, same attempts) and a
\* later poll returns it.
C12_CrashLosesNothing ==
  [][\A w \in Workers :
       (WCrash(w) /\ workers[w].pc \in {"batch", "handling"}) =>
         \A i \in workers[w].pos..Len(workers[w].batch) :
           /\ outbox'[workers[w].batch[i]] = workers[w].events[i]
           /\ workers[w].batch[i]
                \in ClaimableIds(outbox', MaxAttempts, AGG_TYPES)]_vars

\* ------------------------------------------------------- the worker's claims
\* The step just taken was one iteration of process_batch's loop.
Processed(l, l2) == Len(l2) = Len(l) + 1

\* C1: when handle_event raises for event k of a batch, every other event
\* of the batch is still handled and gets its own bookkeeping outcome
\* (mark_processed when its handle_event returned, mark_failed when it
\* raised): once process_batch is over, every event of the batch was handled.
C1_FailureIsolation ==
  \A k \in 1..Len(log) : log[k].raised =>
    /\ pc # "batch" => Len(log) = Len(batch)
    /\ \A i \in (1..Len(log)) \ {k} :
         /\ log[i].called
         /\ log[i].mark = (IF log[i].raised THEN "failed" ELSE "processed")
         /\ outbox[log[i].id].status = log[i].mark

\* process_batch has returned from a batch whose first event raised and
\* whose second event was handled and marked processed.
C1_Witness ==
  /\ pc = "claim"
  /\ Len(batch) >= 2
  /\ Len(log) = Len(batch)
  /\ log[1].raised /\ outbox[log[1].id].status = "failed"
  /\ ~log[2].raised /\ outbox[log[2].id].status = "processed"

\* C2: an event whose handling keeps failing has its attempts incremented by
\* each mark_failed, is in no batch once attempts >= max_attempts, and so is
\* handed to a pipeline at most max_attempts times.
C2_RetryBound ==
  /\ \A id \in DOMAIN outbox :
       LET unrecorded ==
             \/ outbox[id].status = "processed"
             \/ pc = "exited" /\ log[Len(log)].id = id
       IN  /\ dispatched[id] <= MaxAttempts
           /\ outbox[id].attempts = dispatched[id] - (IF unrecorded THEN 1 ELSE 0)
  /\ pc = "batch" =>
       \A i \in pos..Len(batch) :
         Claimable(outbox[batch[i]], MaxAttempts, AGG_TYPES)

\* An event failed max_attempts times and a later poll came back empty.
C2_Witness ==
  /\ pc = "sleep"
  /\ ClaimableIds(outbox, MaxAttempts, AGG_TYPES) = {}
  /\ \E id \in DOMAIN outbox :
       /\ outbox[id].status = "failed"
       /\ outbox[id].attempts = MaxAttempts
       /\ dispatched[id] = MaxAttempts

\* C3: no error raised while handling an event leaves process_batch: the
\* failure is recorded against the event with mark_failed, the loop goes on
\* to the next event, and after the last one main is back at its poll.
C3_NoPropagation ==
  [][(pc = "batch" /\ Processed(log, log')) =>
       LET e == log'[Len(log')]
       IN  /\ pos' = pos + 1
           /\ pc' = (IF pos = Len(batch) THEN "claim" ELSE "batch")
           /\ e.raised =>
                /\ outbox'[e.id].status = "failed"
                /\ outbox'[e.id].attempts = outbox[e.id].attempts + 1]_vars

\* The last event of a batch raised and main is polling again.
C3_Witness ==
  /\ pc = "claim"
  /\ Len(log) >= 1
  /\ Len(log) = Len(batch)
  /\ log[Len(log)].raised
  /\ log[Len(log)].mark = "failed"

\* C6: for an event whose op is not DELETE and whose load finds no relational
\* row, handle_event returns without raising and writes nothing to the
\* graph, and the worker marks the event processed, attempts unchanged.
C6_MissingRowTolerance ==
  [][(pc = "batch" /\ Processed(log, log')) =>
       LET e  == log'[Len(log')]
           ev == outbox[e.id]
       IN  (e.called /\ e.absent /\ Upper(ev.op) # "DELETE") =>
             /\ ~e.raised
             /\ graph' = graph
             /\ outbox'[e.id].status = "processed"
             /\ outbox'[e.id].attempts = ev.attempts]_vars

\* C9: while the worker keeps running, every event of a recognized aggregate
\* type that is not processed and has attempts < max_attempts is handed to
\* its pipeline again, so it ends processed or with attempts at max_attempts.
C9_AtLeastOnce ==
  \A i \in 1..MaxEvents : \A a \in 0..(MaxAttempts - 1) :
    (/\ i \in DOMAIN outbox
     /\ Claimable(outbox[i], MaxAttempts, AGG_TYPES)
     /\ outbox[i].attempts = a)
    ~> (/\ i \in DOMAIN dispatched
        /\ dispatched[i] > a
        /\ outbox[i].status = "processed" \/ outbox[i].attempts > a)

\* An event failed once, was handed to its pipeline again and is processed.
C9_Witness ==
  \E i \in DOMAIN outbox :
    /\ outbox[i].status = "processed"
    /\ outbox[i].attempts = 1
    /\ dispatched[i] = 2

\* What process_batch does for an event of an unrecognized aggregate type.
SkipsUnrecognized(e) ==
  /\ ~e.called
  /\ e.mark = "none"
  /\ graph' = graph
  /\ outbox' = outbox
  /\ dispatched' = dispatched
  /\ pos' = pos + 1
  /\ pc' = (IF pos = Len(batch) THEN "claim" ELSE "batch")

====
